---------------------------- MODULE Spec2Model ----------------------------
(***************************************************************************)
(* Model of src/app.py: analyze_password (lines 76-134) and the password   *)
(* generator of the sidebar (lines 174-179).                               *)
(*                                                                         *)
(* A password is a sequence of characters; a character is a one-character  *)
(* string, and a character outside ASCII is named by its code point        *)
(* ("U+00C9").  The entropy, a float in the source, is held in millionths  *)
(* of a bit: length * floor(10^6 * log2(char_pool)).  For every pool the   *)
(* code can form and every length below 300 the comparisons of lines       *)
(* 118-122 (entropy < 30, < 50, < 70) give the same answer on that integer *)
(* as on the float.                                                        *)
(***************************************************************************)
EXTENDS Integers, Sequences, FiniteSets

VARIABLES
    password,         \* analyze_password's argument
    pc,               \* position in analyze_password
    criteria,         \* line 80
    char_pool,        \* line 89
    entropy,          \* line 78, in millionths of a bit
    score,            \* line 77
    suggestions,      \* line 79
    strength,         \* lines 118-125
    length,           \* line 174
    include_special,  \* line 175
    chars,            \* line 177
    generated,        \* line 178, the characters joined so far
    gpc               \* position in the generator

vars == <<password, pc, criteria, char_pool, entropy, score, suggestions,
          strength, length, include_special, chars, generated, gpc>>

analyzerVars == <<password, pc, criteria, char_pool, entropy, score,
                  suggestions, strength>>

generatorVars == <<length, include_special, chars, generated, gpc>>

---------------------------------------------------------------------------
(* Characters *)

ascii_lowercase ==
    <<"a", "b", "c", "d", "e", "f", "g", "h", "i", "j", "k", "l", "m",
      "n", "o", "p", "q", "r", "s", "t", "u", "v", "w", "x", "y", "z">>

ascii_uppercase ==
    <<"A", "B", "C", "D", "E", "F", "G", "H", "I", "J", "K", "L", "M",
      "N", "O", "P", "Q", "R", "S", "T", "U", "V", "W", "X", "Y", "Z">>

ascii_letters == ascii_lowercase \o ascii_uppercase

digits == <<"0", "1", "2", "3", "4", "5", "6", "7", "8", "9">>

\* The grave accent, which cannot be written inside a string here.
GraveAccent == "U+0060"

punctuation ==
    <<"!", "\"", "#", "$", "%", "&", "'", "(", ")", "*", "+", ",", "-",
      ".", "/", ":", ";", "<", "=", ">", "?", "@", "[", "\\", "]", "^",
      "_", GraveAccent, "{", "|", "}", "~">>

Range(s) == {s[i] : i \in 1..Len(s)}

\* The character class of line 85: [!@#$%^&*(),.?":{}|<>[\]]
SpecialClass ==
    {"!", "@", "#", "$", "%", "^", "&", "*", "(", ")", ",", ".", "?",
     "\"", ":", "{", "}", "|", "<", ">", "[", "]"}

\* Characters outside ASCII: e acute, E acute, ARABIC-INDIC DIGIT THREE.
LowerEAcute == "U+00E9"
UpperEAcute == "U+00C9"
ArabicIndicThree == "U+0663"

\* re's \d on a str pattern: every Unicode decimal digit (category Nd).
UnicodeDecimalDigits == Range(digits) \cup {ArabicIndicThree}

Min(a, b) == IF a < b THEN a ELSE b
Max(a, b) == IF a > b THEN a ELSE b

\* str.lower() on one character.
LowerChar(c) ==
    IF \E i \in 1..Len(ascii_uppercase) : ascii_uppercase[i] = c
    THEN ascii_lowercase[CHOOSE i \in 1..Len(ascii_uppercase) :
                             ascii_uppercase[i] = c]
    ELSE IF c = UpperEAcute THEN LowerEAcute ELSE c

\* password.lower()
Lower(s) == [i \in 1..Len(s) |-> LowerChar(s[i])]

\* pattern in s
Contains(s, pattern) ==
    \E i \in 0..(Len(s) - Len(pattern)) :
        SubSeq(s, i + 1, i + Len(pattern)) = pattern

\* re.search(r'[...]', s) for a character class
Search(class, s) == \E i \in 1..Len(s) : s[i] \in class

---------------------------------------------------------------------------
(* analyze_password *)

CriterionNames == {"length", "uppercase", "lowercase", "digits", "special"}

NoCriteria == [k \in CriterionNames |-> FALSE]

\* lines 80-86
Criteria(pw) ==
    [length    |-> Len(pw) >= 12,
     uppercase |-> Search(Range(ascii_uppercase), pw),
     lowercase |-> Search(Range(ascii_lowercase), pw),
     digits    |-> Search(UnicodeDecimalDigits, pw),
     special   |-> Search(SpecialClass, pw)]

\* lines 89-93
CharPool(c) ==
      (IF c.uppercase THEN 26 ELSE 0)
    + (IF c.lowercase THEN 26 ELSE 0)
    + (IF c.digits THEN 10 ELSE 0)
    + (IF c.special THEN 32 ELSE 0)

\* floor(10^6 * math.log2(n)) for the pools lines 89-93 can form
Log2Micro(n) ==
    CASE n = 10 -> 3321928
      [] n = 26 -> 4700439
      [] n = 32 -> 5000000
      [] n = 36 -> 5169925
      [] n = 42 -> 5392317
      [] n = 52 -> 5700439
      [] n = 58 -> 5857980
      [] n = 62 -> 5954196
      [] n = 68 -> 6087462
      [] n = 84 -> 6392317
      [] n = 94 -> 6554588

Micro == 1000000

\* lines 96-97
Entropy(pw, pool) == IF pool > 0 THEN Len(pw) * Log2Micro(pool) ELSE 0

\* The length bonus without its cap of 30.
LengthBonusUncapped(pw) == Len(pw) * 2

\* line 100
LengthBonus(pw) == Min(Len(pw) * 2, 30)

\* The digits bonus mistaken for the letters' 15.
ClassBonusDigits15(c) ==
      (IF c.uppercase THEN 15 ELSE 0)
    + (IF c.lowercase THEN 15 ELSE 0)
    + (IF c.digits THEN 15 ELSE 0)
    + (IF c.special THEN 20 ELSE 0)

\* lines 101-104
ClassBonus(c) ==
      (IF c.uppercase THEN 15 ELSE 0)
    + (IF c.lowercase THEN 15 ELSE 0)
    + (IF c.digits THEN 20 ELSE 0)
    + (IF c.special THEN 20 ELSE 0)

\* line 107
common_patterns ==
    {<<"p", "a", "s", "s", "w", "o", "r", "d">>,
     <<"1", "2", "3", "4">>,
     <<"q", "w", "e", "r", "t", "y">>,
     <<"a", "d", "m", "i", "n">>}

\* line 108
HasCommonPattern(pw) ==
    \E pattern \in common_patterns : Contains(Lower(pw), pattern)

\* The pattern penalty with the repetition penalty's 20.
PatternPenalty20(s) == Max(10, s - 20)

\* line 109
PatternPenalty(s) == Max(10, s - 40)

\* The repetition test with a floor division (//).
HasRepetitionFloor(pw) == Cardinality(Range(pw)) < Len(pw) \div 2

\* line 113: len(set(password)) < len(password) / 2, a true division
HasRepetition(pw) == 2 * Cardinality(Range(pw)) < Len(pw)

\* line 115
RepetitionPenalty(s) == Max(20, s - 20)

\* The Weak test with and for or.
ClassifyWeakAnd(s, e) ==
    IF s < 40 /\ e < 30 * Micro THEN <<"Weak", "strength-weak">>
    ELSE IF s < 70 \/ e < 50 * Micro THEN <<"Moderate", "strength-moderate">>
    ELSE IF s < 90 \/ e < 70 * Micro THEN <<"Strong", "strength-strong">>
    ELSE <<"Excellent", "strength-excellent">>

\* lines 118-125
Classify(s, e) ==
    IF s < 40 \/ e < 30 * Micro THEN <<"Weak", "strength-weak">>
    ELSE IF s < 70 \/ e < 50 * Micro THEN <<"Moderate", "strength-moderate">>
    ELSE IF s < 90 \/ e < 70 * Micro THEN <<"Strong", "strength-strong">>
    ELSE <<"Excellent", "strength-excellent">>

PatternMessage == "Avoid common passwords or predictable patterns"
RepetitionMessage == "Reduce character repetition"
LengthMessage == "Use 12+ characters for better security"
UppercaseMessage == "Add uppercase letters (A-Z)"
LowercaseMessage == "Add lowercase letters (a-z)"
DigitsMessage == "Include numbers (0-9)"
SpecialMessage == "Add special characters (!@#$%^&*)"

\* The five tests chained with elif: only the first missing one reports.
MissingSuggestionsElif(c) ==
    IF ~c.length THEN <<LengthMessage>>
    ELSE IF ~c.uppercase THEN <<UppercaseMessage>>
    ELSE IF ~c.lowercase THEN <<LowercaseMessage>>
    ELSE IF ~c.digits THEN <<DigitsMessage>>
    ELSE IF ~c.special THEN <<SpecialMessage>>
    ELSE <<>>

\* lines 128-132
MissingSuggestions(c) ==
       (IF ~c.length THEN <<LengthMessage>> ELSE <<>>)
    \o (IF ~c.uppercase THEN <<UppercaseMessage>> ELSE <<>>)
    \o (IF ~c.lowercase THEN <<LowercaseMessage>> ELSE <<>>)
    \o (IF ~c.digits THEN <<DigitsMessage>> ELSE <<>>)
    \o (IF ~c.special THEN <<SpecialMessage>> ELSE <<>>)

---------------------------------------------------------------------------
(* The passwords analysed: a short prefix over Alphabet, then one of the   *)
(* Fixtures (the empty one among them), then at most one more character.   *)

MaxPre == 2

Alphabet ==
    {"a", "A", "1", "!", "_", LowerEAcute, UpperEAcute, ArabicIndicThree}

SeqsUpTo(n) == UNION {[1..k -> Alphabet] : k \in 0..n}

Troubador == <<"T", "r", "0", "u", "b", "4", "d", "o", "r", "&", "3", "X", "Q">>

TwelveAs == [i \in 1..12 |-> "a"]

FiveOfTwo == <<"a", "a", "1", "a", "1">>

PasswordFull ==
    <<"P", "a", "s", "s", "w", "o", "r", "d", "1", "2", "3", "4", "!">>

Repeated1234 == <<"1", "2", "3", "4", "1", "2", "3", "4", "1">>

Fixtures ==
    {<<>>,
     <<"p", "a", "s", "s", "w", "o", "r", "d">>,
     <<"1", "2", "3", "4">>,
     <<"q", "w", "e", "r", "t", "y">>,
     <<"A", "d", "m", "i", "n">>,
     Troubador, TwelveAs, FiveOfTwo, PasswordFull, Repeated1234}

Inputs ==
    {pre \o w \o post :
        pre \in SeqsUpTo(MaxPre), w \in Fixtures,
        post \in {<<>>} \cup {<<c>> : c \in Alphabet}}

---------------------------------------------------------------------------
(* analyze_password as steps *)

\* lines 76-79: the call, with score, entropy and suggestions initialised
InitAnalyzer ==
    /\ password \in Inputs
    /\ pc = "start"
    /\ criteria = NoCriteria
    /\ char_pool = 0
    /\ entropy = 0
    /\ score = 0
    /\ suggestions = <<>>
    /\ strength = <<"none", "none">>

\* lines 80-104: criteria, pool, entropy and the additive score
Evaluate ==
    /\ pc = "start"
    /\ criteria' = Criteria(password)
    /\ char_pool' = CharPool(criteria')
    /\ entropy' = Entropy(password, char_pool')
    /\ score' = score + LengthBonus(password) + ClassBonus(criteria')
    /\ pc' = "scored"
    /\ UNCHANGED <<password, suggestions, strength>>

\* lines 106-110
CommonPatternCheck ==
    /\ pc = "scored"
    /\ IF HasCommonPattern(password)
       THEN /\ score' = PatternPenalty(score)
            /\ suggestions' = Append(suggestions, PatternMessage)
       ELSE UNCHANGED <<score, suggestions>>
    /\ pc' = "patterned"
    /\ UNCHANGED <<password, criteria, char_pool, entropy, strength>>

\* lines 112-115
RepetitionCheck ==
    /\ pc = "patterned"
    /\ IF HasRepetition(password)
       THEN /\ suggestions' = Append(suggestions, RepetitionMessage)
            /\ score' = RepetitionPenalty(score)
       ELSE UNCHANGED <<score, suggestions>>
    /\ pc' = "penalized"
    /\ UNCHANGED <<password, criteria, char_pool, entropy, strength>>

\* lines 117-134: classification, the suggestions of the criteria, return
ClassifyAndReturn ==
    /\ pc = "penalized"
    /\ strength' = Classify(score, entropy)
    /\ suggestions' = suggestions \o MissingSuggestions(criteria)
    /\ pc' = "done"
    /\ UNCHANGED <<password, criteria, char_pool, entropy, score>>

---------------------------------------------------------------------------
(* The generator: lines 176-179 as a function of length and                *)
(* include_special.  The slider of line 174 is its caller in the           *)
(* application and offers 8..32; the lengths drawn here are -1, 0 and      *)
(* 1..MaxGenLen, the ones the function is specified for.                   *)

MaxGenLen == 2

GenLengths == -1..MaxGenLen

\* The pool with the punctuation whatever the checkbox says.
CharsAlwaysSpecial(special) == ascii_letters \o digits \o punctuation

\* line 177
Chars(special) ==
    ascii_letters \o digits \o (IF special THEN punctuation ELSE <<>>)

AnalyzerIdle ==
    /\ password = <<>>
    /\ pc = "idle"
    /\ criteria = NoCriteria
    /\ char_pool = 0
    /\ entropy = 0
    /\ score = 0
    /\ suggestions = <<>>
    /\ strength = <<"none", "none">>

GeneratorIdle ==
    /\ length = 0
    /\ include_special = FALSE
    /\ chars = <<>>
    /\ generated = <<>>
    /\ gpc = "idle"

\* lines 174-175: the values of the two widgets
InitGenerator ==
    /\ length \in GenLengths
    /\ include_special \in BOOLEAN
    /\ chars = <<>>
    /\ generated = <<>>
    /\ gpc = "idle"

\* lines 176-177: the button is pressed and the pool is built
Generate ==
    /\ gpc = "idle"
    /\ chars' = Chars(include_special)
    /\ gpc' = "joining"
    /\ UNCHANGED <<length, include_special, generated>>

\* line 178: one turn of the generator expression over range(length);
\* secrets.choice(chars) returns any element of chars
Choice ==
    /\ gpc = "joining"
    /\ Len(generated) < length
    /\ \E i \in 1..Len(chars) : generated' = Append(generated, chars[i])
    /\ UNCHANGED <<length, include_special, chars, gpc>>

\* lines 178-179: range(length) is exhausted, the string is joined and shown
Show ==
    /\ gpc = "joining"
    /\ Len(generated) >= length
    /\ gpc' = "done"
    /\ UNCHANGED <<length, include_special, chars, generated>>

Init == InitAnalyzer /\ GeneratorIdle

Next ==
    \/ Evaluate /\ UNCHANGED generatorVars
    \/ CommonPatternCheck /\ UNCHANGED generatorVars
    \/ RepetitionCheck /\ UNCHANGED generatorVars
    \/ ClassifyAndReturn /\ UNCHANGED generatorVars

Spec == Init /\ [][Next]_vars

GenInit == AnalyzerIdle /\ InitGenerator

GenNext ==
    \/ Generate /\ UNCHANGED analyzerVars
    \/ Choice /\ UNCHANGED analyzerVars
    \/ Show /\ UNCHANGED analyzerVars

GenSpec == GenInit /\ [][GenNext]_vars

---------------------------------------------------------------------------
(* Properties of analyze_password, checked under Spec *)

AllCriteria == \A k \in CriterionNames : criteria[k]

\* The additive score of a password whose criteria are c.
Additive(pw, c) ==
    Min(2 * Len(pw), 30)
        + (IF c.uppercase THEN 15 ELSE 0) + (IF c.lowercase THEN 15 ELSE 0)
        + (IF c.digits THEN 20 ELSE 0) + (IF c.special THEN 20 ELSE 0)

\* The lowercased password contains a denylisted substring.
Denylisted(pw) ==
    \/ Contains(Lower(pw), <<"p", "a", "s", "s", "w", "o", "r", "d">>)
    \/ Contains(Lower(pw), <<"1", "2", "3", "4">>)
    \/ Contains(Lower(pw), <<"q", "w", "e", "r", "t", "y">>)
    \/ Contains(Lower(pw), <<"a", "d", "m", "i", "n">>)

\* Fewer distinct characters than half the length, the half not floored.
Repetitive(pw) == 2 * Cardinality(Range(pw)) < Len(pw)

Rank(label) ==
    CASE label = "Weak" -> 0
      [] label = "Moderate" -> 1
      [] label = "Strong" -> 2
      [] label = "Excellent" -> 3

\* C1: for every input string, the empty one and those with no character
\* of the four classes included, the returned score is an integer in
\* 0..100 and the returned entropy is not negative.
C1_ScoreAndEntropyInRange ==
    pc = "done" => (score \in 0..100 /\ entropy >= 0)

\* A non-empty password with no character of any class has been analysed.
C1_Witness ==
    /\ pc = "done"
    /\ password # <<>>
    /\ char_pool = 0
    /\ score \in 0..100

\* C4: the tier is decided by (score, entropy) alone, the weaker of the two
\* winning: Weak iff score < 40 or entropy < 30, Moderate iff not Weak and
\* (score < 70 or entropy < 50), Excellent iff score >= 90 and entropy >= 70,
\* Strong otherwise; and with Weak < Moderate < Strong < Excellent the tier
\* does not decrease when the score grows at a fixed entropy, nor when the
\* entropy grows at a fixed score.
C4_TierThresholdsMonotone ==
    pc = "done" =>
        /\ strength[1] = "Weak" <=> (score < 40 \/ entropy < 30 * Micro)
        /\ strength[1] = "Moderate" <=>
              /\ score >= 40 /\ entropy >= 30 * Micro
              /\ (score < 70 \/ entropy < 50 * Micro)
        /\ strength[1] = "Strong" <=>
              /\ score >= 70 /\ entropy >= 50 * Micro
              /\ (score < 90 \/ entropy < 70 * Micro)
        /\ strength[1] = "Excellent" <=> (score >= 90 /\ entropy >= 70 * Micro)
        /\ \A s2 \in score..100 :
              Rank(Classify(s2, entropy)[1]) >= Rank(strength[1])
        /\ \A k \in 0..100 :
              Rank(Classify(score, entropy + k * Micro)[1]) >= Rank(strength[1])

\* A score good for Moderate with an entropy below 30 bits: Weak.
C4_Witness ==
    /\ pc = "done"
    /\ score >= 40
    /\ entropy < 30 * Micro
    /\ strength[1] = "Weak"

\* C5: each returned criterion is the ASCII-only test: length iff at least
\* 12 characters, uppercase iff some character in A-Z, lowercase iff some in
\* a-z, digits iff some in 0-9, special iff some listed punctuation
\* character; no character outside those ASCII sets makes a class criterion
\* true.
C5_CriteriaAsciiOnly ==
    pc = "done" =>
        /\ criteria.length <=> Len(password) >= 12
        /\ criteria.uppercase <=> Range(password) \cap Range(ascii_uppercase) # {}
        /\ criteria.lowercase <=> Range(password) \cap Range(ascii_lowercase) # {}
        /\ criteria.digits <=> Range(password) \cap Range(digits) # {}
        /\ criteria.special <=> Range(password) \cap SpecialClass # {}

\* C6: penalties only lower the score: neither the common-pattern step nor
\* the repetition step leaves a score above the one it was applied to.
C6_PenaltiesOnlyLower ==
    [][(pc \in {"scored", "patterned"}) => (score' <= score)]_vars

\* C7: the returned suggestions are exactly the applicable messages, in
\* the order pattern, repetition, length, uppercase, lowercase, digits,
\* special, each present iff its penalty fired or its criterion is false;
\* so they are not empty when a criterion is false or a penalty fired.
C7_SuggestionsExact ==
    pc = "done" =>
        /\ suggestions =
               (IF Denylisted(password) THEN <<PatternMessage>> ELSE <<>>)
            \o (IF Repetitive(password) THEN <<RepetitionMessage>> ELSE <<>>)
            \o (IF criteria.length THEN <<>> ELSE <<LengthMessage>>)
            \o (IF criteria.uppercase THEN <<>> ELSE <<UppercaseMessage>>)
            \o (IF criteria.lowercase THEN <<>> ELSE <<LowercaseMessage>>)
            \o (IF criteria.digits THEN <<>> ELSE <<DigitsMessage>>)
            \o (IF criteria.special THEN <<>> ELSE <<SpecialMessage>>)
        /\ (~AllCriteria \/ Denylisted(password) \/ Repetitive(password))
               => suggestions # <<>>

\* Both penalties fired and more than one criterion is false.
C7_Witness ==
    /\ pc = "done"
    /\ Denylisted(password)
    /\ Repetitive(password)
    /\ Len(suggestions) >= 4
    /\ suggestions[1] = PatternMessage
    /\ suggestions[2] = RepetitionMessage

\* C8 as stated: when all five criteria hold and no penalty fires, the
\* pool is 94, the additive score is 30+15+15+20+20 = 100, the final score
\* is 100 and the tier is Excellent.
C8_AllCriteriaNoPenalty ==
    (AllCriteria /\ ~Denylisted(password) /\ ~Repetitive(password)) =>
        /\ pc \in {"scored", "patterned", "penalized", "done"} =>
              (char_pool = 94 /\ score = 100)
        /\ pc = "done" => strength[1] = "Excellent"

\* C8 as amended: when all five criteria hold and no penalty fires, the
\* pool is 94, the additive score is min(2 * length, 30) + 70 (96 for the
\* 13 characters of "Tr0ub4dor&3XQ", 100 from 15 characters on), the final
\* score is that additive score and the tier is Excellent.
C8_AllCriteriaNoPenaltyAmended ==
    (AllCriteria /\ ~Denylisted(password) /\ ~Repetitive(password)) =>
        /\ pc \in {"scored", "patterned", "penalized", "done"} =>
              /\ char_pool = 94
              /\ score = Min(2 * Len(password), 30) + 15 + 15 + 20 + 20
              /\ password = Troubador => score = 96
              /\ Len(password) >= 15 => score = 100
        /\ pc = "done" => strength[1] = "Excellent"

\* "Tr0ub4dor&3XQ" has been analysed: no penalty, 96, Excellent.
C8_Witness ==
    /\ pc = "done"
    /\ password = Troubador
    /\ AllCriteria
    /\ ~Denylisted(password) /\ ~Repetitive(password)
    /\ score = 96
    /\ strength[1] = "Excellent"

\* C9: with A the additive score, the pattern penalty fires iff the
\* lowercased password contains a denylisted substring and sets the score
\* to max(10, A - 40); the repetition penalty fires iff twice the number of
\* distinct characters is below the length and sets the score s left by the
\* pattern step to max(20, s - 20); the final score is the result of the
\* two steps in that order.
C9_PenaltiesInOrder ==
    LET A == Additive(password, criteria)
        s1 == IF Denylisted(password) THEN Max(10, A - 40) ELSE A
        s2 == IF Repetitive(password) THEN Max(20, s1 - 20) ELSE s1
    IN  /\ pc = "scored" => score = A
        /\ pc = "patterned" =>
              /\ score = s1
              /\ Denylisted(password) <=> PatternMessage \in Range(suggestions)
        /\ pc \in {"penalized", "done"} =>
              /\ score = s2
              /\ Denylisted(password) <=> PatternMessage \in Range(suggestions)
              /\ Repetitive(password) <=> RepetitionMessage \in Range(suggestions)

\* Five characters, two of them distinct: the repetition penalty fired.
C9_Witness ==
    /\ pc = "done"
    /\ Len(password) = 5
    /\ Cardinality(Range(password)) = 2
    /\ RepetitionMessage \in Range(suggestions)
    /\ score = Max(20, Additive(password, criteria) - 20)

\* C10: a password whose lowercased form contains a denylisted substring
\* ends with a score of at most 60 and the tier Weak or Moderate.
C10_DenylistedNeverStrong ==
    (pc = "done" /\ Denylisted(password)) =>
        (score <= 60 /\ strength[1] \in {"Weak", "Moderate"})

\* A denylisted password with all five criteria and 70 bits or more.
C10_Witness ==
    /\ pc = "done"
    /\ Denylisted(password)
    /\ AllCriteria
    /\ entropy >= 70 * Micro
    /\ strength[1] = "Moderate"

---------------------------------------------------------------------------
(* Properties of the generator, checked under GenSpec *)

\* C2: for a length above 0 the string shown has exactly length characters,
\* each from the pool of the setting: ASCII letters and digits, and ASCII
\* punctuation only with include_special; without it no character is a
\* punctuation character.
C2_GeneratedFromPool ==
    (gpc = "done" /\ length > 0) =>
        /\ Len(generated) = length
        /\ \A i \in 1..Len(generated) :
              \/ generated[i] \in Range(ascii_letters) \cup Range(digits)
              \/ include_special /\ generated[i] \in Range(punctuation)
        /\ ~include_special => Range(generated) \cap Range(punctuation) = {}

\* Two or more characters generated with punctuation allowed and drawn.
C2_Witness ==
    /\ gpc = "done"
    /\ length > 1
    /\ include_special
    /\ Len(generated) = length
    /\ generated[1] \in Range(punctuation)
    /\ generated[2] \in Range(digits)

=============================================================================
